---- MODULE Spec2Model ----
(***************************************************************************)
(* Model of proc/external_active_space_solver.py (forte):                  *)
(*   write_external_active_space_file  - integral exchange record          *)
(*   make_hamiltonian                  - determinant-space FCI reference   *)
(*   write_external_rdm_file           - RDM exchange record               *)
(* One behaviour is one process that makes one call of one of the three    *)
(* functions on a file system that holds the files of an earlier run.      *)
(* Floating-point values are modelled as integers.                         *)
(***************************************************************************)
EXTENDS Integers, Sequences, FiniteSets, TLC

\* ------------------------------------------------------------------ bounds
MaxNmo == 2        \* active orbitals of the provider handed to the writer
MaxSeed == 1       \* test doubles of the numeric provider / RDM bundle
MaxStates == 2     \* entries of a state map / state-energies map
MaxDetNmo == 3     \* active orbitals of the provider handed to make_hamiltonian
MaxNact == 2       \* active orbitals of the RDM bundle
MaxEigGap == 1     \* how far the lowest eigenvalue may lie below the diagonal
MaxRoots == 1      \* roots (energies) of one state of the solver

None == "None"
\* a path with no file, and a file left by an earlier run (a JSON tree with
\* none of the keys of this run)
NoFile == [absent |-> TRUE]
StaleFile == [earlier_run |-> TRUE]

\* ------------------------------------------------------------------ helpers
\* range(n) as a sequence: <<0, 1, ..., n-1>>
Range(n) == [x \in 1..n |-> x - 1]

RECURSIVE ConcatAll(_)
\* successive list.append / list + list over a loop: the concatenation of the
\* per-iteration lists, in iteration order
ConcatAll(ss) ==
    IF Len(ss) = 0 THEN <<>> ELSE Head(ss) \o ConcatAll(Tail(ss))

RECURSIVE Idx(_)
Idx(t) == IF Len(t) = 0 THEN 0 ELSE Head(t) + 4 * Idx(Tail(t))

\* value a numeric test double returns for channel ch at spatial index tuple t
Val(seed, ch, t) == (((seed + 1) * (Idx(t) + ch) + ch) % 5) - 2

\* ------------------------------------------------------------------ inputs
\* the active-space integral provider (as_ints): a test double of nmo orbitals
Providers(maxnmo) == [nmo : 0..maxnmo, seed : 0..MaxSeed]

\* the states (irrep, na, nb) a state map is keyed by
StateInfos == { [irrep |-> 0, na |-> 1, nb |-> 1],
                [irrep |-> 1, na |-> 1, nb |-> 0],
                [irrep |-> 0, na |-> 2, nb |-> 0] }

\* a dict keyed by StateInfo, in iteration (insertion) order: keys are unique
StateMaps ==
    {m \in UNION {[1..n -> [state : StateInfos, nroots : {1}]] : n \in 0..MaxStates} :
        \A a, b \in 1..Len(m) : a # b => m[a].state # m[b].state}

\* provider accessors
oei_a(as, i, j) == Val(as.seed, 1, <<i, j>>)
oei_b(as, i, j) == Val(as.seed, 2, <<i, j>>)
tei_aa(as, i, j, k, l) == Val(as.seed, 3, <<i, j, k, l>>)
tei_ab(as, i, j, k, l) == Val(as.seed, 4, <<i, j, k, l>>)
tei_bb(as, i, j, k, l) == Val(as.seed, 5, <<i, j, k, l>>)
frozen_core_energy(as) == Val(as.seed, 11, <<>>)
scalar_energy(as) == Val(as.seed, 12, <<>>)
nuclear_repulsion_energy(as) == Val(as.seed, 13, <<>>)
mo_symmetry(as) == [p \in 1..as.nmo |-> (as.seed + p) % 2]

\* ------------------------------------------------------------------ writer
Field(d, desc) == [data |-> d, description |-> desc]

\* [i for i in as_ints.mo_symmetry() for j in range(2)]
SymmetryList(as) == ConcatAll([p \in 1..Len(mo_symmetry(as)) |->
                        [j \in 1..2 |-> mo_symmetry(as)[p]]])

\* [j for i in range(nmo) for j in range(2)]
SpinList(nmo) == ConcatAll([p \in 1..nmo |-> Range(2)])

ScalarEnergy(as) ==
    frozen_core_energy(as) + scalar_energy(as) + nuclear_repulsion_energy(as)

OeiA(as) == ConcatAll([i \in 1..as.nmo |-> [j \in 1..as.nmo |->
                <<(i-1) * 2, (j-1) * 2, oei_a(as, i-1, j-1)>>]])
OeiB(as) == ConcatAll([i \in 1..as.nmo |-> [j \in 1..as.nmo |->
                <<(i-1) * 2 + 1, (j-1) * 2 + 1, oei_b(as, i-1, j-1)>>]])
Oei(as) == OeiA(as) \o OeiB(as)

\* TeiBlock with the sign of the baab row lost
TeiBlock_BaabSign(as, i, j, k, l) ==
    << <<i * 2, j * 2, k * 2, l * 2, tei_aa(as, i, j, k, l)>>,
       <<i * 2, j * 2 + 1, k * 2, l * 2 + 1, tei_ab(as, i, j, k, l)>>,
       <<i * 2, j * 2 + 1, l * 2 + 1, k * 2, -tei_ab(as, i, j, k, l)>>,
       <<j * 2 + 1, i * 2, k * 2, l * 2 + 1, tei_ab(as, i, j, k, l)>>,
       <<j * 2 + 1, i * 2, l * 2 + 1, k * 2, tei_ab(as, i, j, k, l)>>,
       <<i * 2 + 1, j * 2 + 1, k * 2 + 1, l * 2 + 1, tei_bb(as, i, j, k, l)>> >>

\* TeiBlock with i and j not exchanged in the two ba.. rows
TeiBlock_NoSwap(as, i, j, k, l) ==
    << <<i * 2, j * 2, k * 2, l * 2, tei_aa(as, i, j, k, l)>>,
       <<i * 2, j * 2 + 1, k * 2, l * 2 + 1, tei_ab(as, i, j, k, l)>>,
       <<i * 2, j * 2 + 1, l * 2 + 1, k * 2, -tei_ab(as, i, j, k, l)>>,
       <<i * 2 + 1, j * 2, k * 2, l * 2 + 1, -tei_ab(as, i, j, k, l)>>,
       <<i * 2 + 1, j * 2, l * 2 + 1, k * 2, tei_ab(as, i, j, k, l)>>,
       <<i * 2 + 1, j * 2 + 1, k * 2 + 1, l * 2 + 1, tei_bb(as, i, j, k, l)>> >>

\* the six appends of one pass through the innermost loop body
TeiBlock(as, i, j, k, l) ==
    << <<i * 2, j * 2, k * 2, l * 2, tei_aa(as, i, j, k, l)>>,
       <<i * 2, j * 2 + 1, k * 2, l * 2 + 1, tei_ab(as, i, j, k, l)>>,
       <<i * 2, j * 2 + 1, l * 2 + 1, k * 2, -tei_ab(as, i, j, k, l)>>,
       <<j * 2 + 1, i * 2, k * 2, l * 2 + 1, -tei_ab(as, i, j, k, l)>>,
       <<j * 2 + 1, i * 2, l * 2 + 1, k * 2, tei_ab(as, i, j, k, l)>>,
       <<i * 2 + 1, j * 2 + 1, k * 2 + 1, l * 2 + 1, tei_bb(as, i, j, k, l)>> >>

Tei(as) ==
    ConcatAll([i \in 1..as.nmo |-> ConcatAll([j \in 1..as.nmo |->
      ConcatAll([k \in 1..as.nmo |-> ConcatAll([l \in 1..as.nmo |->
        TeiBlock(as, i-1, j-1, k-1, l-1)])])])])

\* the keys of the dict 'file' in the order the code assigns them
FieldOrder == <<"state_symmetry", "na", "nb", "nso", "symmetry", "spin",
                "scalar_energy", "oei", "tei">>

FieldValue(as, st, name) ==
    CASE name = "state_symmetry" -> Field(st.irrep, "Symmetry of the state")
      [] name = "na" -> Field(st.na, "number of alpha electrons")
      [] name = "nb" -> Field(st.nb, "number of beta electrons")
      [] name = "nso" -> Field(2 * as.nmo, "number of spin orbitals")
      [] name = "symmetry" -> Field(SymmetryList(as),
                                "symmetry of each spin orbital (Cotton ordering)")
      [] name = "spin" -> Field(SpinList(as.nmo),
                                "spin of each spin orbital (0 = alpha, 1 = beta)")
      [] name = "scalar_energy" -> Field(ScalarEnergy(as),
            "scalar energy (sum of nuclear repulsion, frozen core, and scalar contributions")
      [] name = "oei" -> Field(Oei(as),
            "one-electron integrals as a list of tuples (i,j,<i|h|j>)")
      [] name = "tei" -> Field(Tei(as),
            "antisymmetrized two-electron integrals as a list of tuples (i,j,k,l,<ij||kl>)")

\* the dict 'file' after its first n keys have been assigned
BuildFields(as, st, n) ==
    [name \in {FieldOrder[p] : p \in 1..n} |-> FieldValue(as, st, name)]

\* the accessors one record calls, with the number of keys assigned before the call
Accessors ==
    { <<"nmo", 0>>, <<"irrep", 0>>, <<"na", 1>>, <<"nb", 2>>,
      <<"mo_symmetry", 4>>, <<"frozen_core_energy", 6>>, <<"scalar_energy", 6>>,
      <<"nuclear_repulsion_energy", 6>>, <<"oei_a", 7>>, <<"oei_b", 7>>,
      <<"tei_aa", 8>>, <<"tei_ab", 8>>, <<"tei_bb", 8>> }

\* ------------------------------------------------------------------ make_hamiltonian
\* the states handed to make_hamiltonian: electron counts may exceed nmo
HamStates == [irrep : {0}, na : 0..(MaxDetNmo + 1), nb : 0..(MaxDetNmo + 1)]

RECURSIVE Combinations(_, _)
\* itertools.combinations(pool, r): the r-length subsequences of pool, in
\* lexicographic order of positions; none when r > len(pool)
Combinations(pool, r) ==
    IF r = 0 THEN << <<>> >>
    ELSE IF Len(pool) < r THEN <<>>
    ELSE LET withHead == Combinations(Tail(pool), r - 1)
         IN  [x \in 1..Len(withHead) |-> <<Head(pool)>> \o withHead[x]]
             \o Combinations(Tail(pool), r)

\* forte.Determinant() with set_alfa_bit / set_beta_bit applied to the strings
Determinant(astr, bstr) ==
    [alfa |-> {astr[p] : p \in 1..Len(astr)},
     beta |-> {bstr[p] : p \in 1..Len(bstr)}]

\* MakeDets with the two loops nested the other way round
MakeDets_BetaMajor(nmo, na, nb) ==
    LET orbs == Range(nmo)
        astrs == Combinations(orbs, na)
        bstrs == Combinations(orbs, nb)
    IN  ConcatAll([b \in 1..Len(bstrs) |-> [a \in 1..Len(astrs) |->
            Determinant(astrs[a], bstrs[b])]])

\* the list 'dets' after the nested loops over alpha and beta strings
MakeDets(nmo, na, nb) ==
    LET orbs == Range(nmo)
        astrs == Combinations(orbs, na)
        bstrs == Combinations(orbs, nb)
    IN  ConcatAll([a \in 1..Len(astrs) |-> [b \in 1..Len(bstrs) |->
            Determinant(astrs[a], bstrs[b])]])

RECURSIVE Bits(_)
Bits(S) == IF S = {} THEN 0
           ELSE LET x == CHOOSE y \in S : TRUE IN 2 ^ x + Bits(S \ {x})

\* the matrix-element function of the provider (a symmetric test double)
slater_rules(as, dI, dJ) ==
    Val(as.seed, 7, <<Bits(dI.alfa) + Bits(dJ.alfa), Bits(dI.beta) + Bits(dJ.beta)>>)

\* H[I][J] after the double loop over enumerate(dets)
MakeH(as, ds) ==
    [I \in 1..Len(ds) |-> [J \in 1..Len(ds) |-> slater_rules(as, ds[I], ds[J])]]

\* the (I, J) of the slater_rules calls, in call order
SlaterCalls(ds) ==
    ConcatAll([I \in 1..Len(ds) |-> [J \in 1..Len(ds) |-> <<I, J>>]])

MinDiag(M) ==
    CHOOSE v \in {M[I][I] : I \in 1..Len(M)} : \A I \in 1..Len(M) : v <= M[I][I]

\* evals[0] of np.linalg.eigh(H) for a non-empty H: the matrix element itself
\* for a 1x1 matrix, otherwise a value not above the smallest diagonal element
LowestEvals(M) ==
    IF Len(M) = 1 THEN {M[1][1]}
    ELSE (MinDiag(M) - MaxEigGap)..MinDiag(M)

\* the value printed after 'FCI Energy = '
FciEnergy(as, ev) == ev[1] + scalar_energy(as) + nuclear_repulsion_energy(as)

\* ------------------------------------------------------------------ write_external_rdm_file
\* the active-space solver (a test double): nact active orbitals, nstates
\* states of nroots roots each
Solvers == [nact : 0..MaxNact, seed : 0..MaxSeed,
            nstates : 0..MaxStates, nroots : 1..MaxRoots]

\* active_space_solver.state_energies_map(): the energies of its items, in
\* iteration order (the keys are never read)
state_energies_map(sv) ==
    [p \in 1..sv.nstates |-> [r \in 1..sv.nroots |-> Val(sv.seed, 14, <<p, r>>)]]

\* the requested maximum RDM rank (the two-body RDMs are always read)
RdmLevels == {2, 3}

g1a(rdm, i, j) == Val(rdm.seed, 1, <<i, j>>)
g1b(rdm, i, j) == Val(rdm.seed, 2, <<i, j>>)
g2aa(rdm, i, j, k, l) == Val(rdm.seed, 3, <<i, j, k, l>>)
g2ab(rdm, i, j, k, l) == Val(rdm.seed, 4, <<i, j, k, l>>)
g2bb(rdm, i, j, k, l) == Val(rdm.seed, 5, <<i, j, k, l>>)
g3aaa(rdm, i, j, k, l, m, n) == Val(rdm.seed, 6, <<i, j, k, l, m, n>>)
g3aab(rdm, i, j, k, l, m, n) == Val(rdm.seed, 7, <<i, j, k, l, m, n>>)
g3abb(rdm, i, j, k, l, m, n) == Val(rdm.seed, 8, <<i, j, k, l, m, n>>)
g3bbb(rdm, i, j, k, l, m, n) == Val(rdm.seed, 9, <<i, j, k, l, m, n>>)

Gamma1A(rdm) == ConcatAll([i \in 1..rdm.nact |-> [j \in 1..rdm.nact |->
                    <<(i-1) * 2, (j-1) * 2, g1a(rdm, i-1, j-1)>>]])
\* Gamma1B with the column index left on the alpha spin orbital
Gamma1B_Mixed(rdm) == ConcatAll([i \in 1..rdm.nact |-> [j \in 1..rdm.nact |->
                    <<(i-1) * 2 + 1, (j-1) * 2, g1b(rdm, i-1, j-1)>>]])
Gamma1B(rdm) == ConcatAll([i \in 1..rdm.nact |-> [j \in 1..rdm.nact |->
                    <<(i-1) * 2 + 1, (j-1) * 2 + 1, g1b(rdm, i-1, j-1)>>]])
Gamma1(rdm) == Gamma1A(rdm) \o Gamma1B(rdm)

RECURSIVE EnergyLoop(_, _)
\* for state,energies in state_energies_map.items(): file['energy'] = ...
EnergyLoop(file, items) ==
    IF Len(items) = 0 THEN file
    ELSE EnergyLoop([name \in (DOMAIN file) \cup {"energy"} |->
                        IF name = "energy"
                        THEN Field(Head(items)[1], "energy")
                        ELSE file[name]],
                    Tail(items))

Gamma2Block(rdm, i, j, k, l) ==
    << <<i * 2, j * 2, k * 2, l * 2, g2aa(rdm, i, j, k, l)>>,
       <<i * 2, j * 2 + 1, k * 2, l * 2 + 1, g2ab(rdm, i, j, k, l)>>,
       <<i * 2, j * 2 + 1, l * 2 + 1, k * 2, -g2ab(rdm, i, j, k, l)>>,
       <<j * 2 + 1, i * 2, k * 2, l * 2 + 1, -g2ab(rdm, i, j, k, l)>>,
       <<j * 2 + 1, i * 2, l * 2 + 1, k * 2, g2ab(rdm, i, j, k, l)>>,
       <<i * 2 + 1, j * 2 + 1, k * 2 + 1, l * 2 + 1, g2bb(rdm, i, j, k, l)>> >>

Gamma2(rdm) ==
    ConcatAll([i \in 1..rdm.nact |-> ConcatAll([j \in 1..rdm.nact |->
      ConcatAll([k \in 1..rdm.nact |-> ConcatAll([l \in 1..rdm.nact |->
        Gamma2Block(rdm, i-1, j-1, k-1, l-1)])])])])

\* Gamma3Block with the sign of one abb row (alpha in slot 2, l in slot 3) lost
Gamma3Block_AbbSign(rdm, i, j, k, l, m, n) ==
    LET aaa == g3aaa(rdm, i, j, k, l, m, n)
        aab == g3aab(rdm, i, j, k, l, m, n)
        abb == g3abb(rdm, i, j, k, l, m, n)
        bbb == g3bbb(rdm, i, j, k, l, m, n)
    IN
    << <<i * 2, j * 2, k * 2, l * 2, m * 2, n * 2, aaa>>,
       <<i * 2, j * 2, k * 2 + 1, l * 2, m * 2, n * 2 + 1, aab>>,
       <<i * 2, j * 2, k * 2 + 1, l * 2, n * 2 + 1, m * 2, -aab>>,
       <<i * 2, j * 2, k * 2 + 1, n * 2 + 1, l * 2, m * 2, aab>>,
       <<i * 2, k * 2 + 1, j * 2, l * 2, m * 2, n * 2 + 1, -aab>>,
       <<i * 2, k * 2 + 1, j * 2, l * 2, n * 2 + 1, m * 2, aab>>,
       <<i * 2, k * 2 + 1, j * 2, n * 2 + 1, l * 2, m * 2, -aab>>,
       <<k * 2 + 1, i * 2, j * 2, l * 2, m * 2, n * 2 + 1, aab>>,
       <<k * 2 + 1, i * 2, j * 2, l * 2, n * 2 + 1, m * 2, -aab>>,
       <<k * 2 + 1, i * 2, j * 2, n * 2 + 1, l * 2, m * 2, aab>>,
       <<i * 2, j * 2 + 1, k * 2 + 1, l * 2, m * 2 + 1, n * 2 + 1, abb>>,
       <<i * 2, j * 2 + 1, k * 2 + 1, m * 2 + 1, l * 2, n * 2 + 1, -abb>>,
       <<i * 2, j * 2 + 1, k * 2 + 1, m * 2 + 1, n * 2 + 1, l * 2, abb>>,
       <<j * 2 + 1, i * 2, k * 2 + 1, l * 2, m * 2 + 1, n * 2 + 1, -abb>>,
       <<j * 2 + 1, i * 2, k * 2 + 1, m * 2 + 1, l * 2, n * 2 + 1, abb>>,
       <<j * 2 + 1, i * 2, k * 2 + 1, m * 2 + 1, n * 2 + 1, l * 2, abb>>,
       <<j * 2 + 1, k * 2 + 1, i * 2, l * 2, m * 2 + 1, n * 2 + 1, abb>>,
       <<j * 2 + 1, k * 2 + 1, i * 2, m * 2 + 1, l * 2, n * 2 + 1, -abb>>,
       <<j * 2 + 1, k * 2 + 1, i * 2, m * 2 + 1, n * 2 + 1, l * 2, abb>>,
       <<i * 2 + 1, j * 2 + 1, k * 2 + 1, l * 2 + 1, m * 2 + 1, n * 2 + 1, bbb>> >>

\* the twenty appends of one pass through the innermost loop body
Gamma3Block(rdm, i, j, k, l, m, n) ==
    LET aaa == g3aaa(rdm, i, j, k, l, m, n)
        aab == g3aab(rdm, i, j, k, l, m, n)
        abb == g3abb(rdm, i, j, k, l, m, n)
        bbb == g3bbb(rdm, i, j, k, l, m, n)
    IN
    << <<i * 2, j * 2, k * 2, l * 2, m * 2, n * 2, aaa>>,
       \* aab case
       <<i * 2, j * 2, k * 2 + 1, l * 2, m * 2, n * 2 + 1, aab>>,
       <<i * 2, j * 2, k * 2 + 1, l * 2, n * 2 + 1, m * 2, -aab>>,
       <<i * 2, j * 2, k * 2 + 1, n * 2 + 1, l * 2, m * 2, aab>>,
       <<i * 2, k * 2 + 1, j * 2, l * 2, m * 2, n * 2 + 1, -aab>>,
       <<i * 2, k * 2 + 1, j * 2, l * 2, n * 2 + 1, m * 2, aab>>,
       <<i * 2, k * 2 + 1, j * 2, n * 2 + 1, l * 2, m * 2, -aab>>,
       <<k * 2 + 1, i * 2, j * 2, l * 2, m * 2, n * 2 + 1, aab>>,
       <<k * 2 + 1, i * 2, j * 2, l * 2, n * 2 + 1, m * 2, -aab>>,
       <<k * 2 + 1, i * 2, j * 2, n * 2 + 1, l * 2, m * 2, aab>>,
       \* abb case
       <<i * 2, j * 2 + 1, k * 2 + 1, l * 2, m * 2 + 1, n * 2 + 1, abb>>,
       <<i * 2, j * 2 + 1, k * 2 + 1, m * 2 + 1, l * 2, n * 2 + 1, -abb>>,
       <<i * 2, j * 2 + 1, k * 2 + 1, m * 2 + 1, n * 2 + 1, l * 2, abb>>,
       <<j * 2 + 1, i * 2, k * 2 + 1, l * 2, m * 2 + 1, n * 2 + 1, -abb>>,
       <<j * 2 + 1, i * 2, k * 2 + 1, m * 2 + 1, l * 2, n * 2 + 1, abb>>,
       <<j * 2 + 1, i * 2, k * 2 + 1, m * 2 + 1, n * 2 + 1, l * 2, -abb>>,
       <<j * 2 + 1, k * 2 + 1, i * 2, l * 2, m * 2 + 1, n * 2 + 1, abb>>,
       <<j * 2 + 1, k * 2 + 1, i * 2, m * 2 + 1, l * 2, n * 2 + 1, -abb>>,
       <<j * 2 + 1, k * 2 + 1, i * 2, m * 2 + 1, n * 2 + 1, l * 2, abb>>,
       \* bbb case
       <<i * 2 + 1, j * 2 + 1, k * 2 + 1, l * 2 + 1, m * 2 + 1, n * 2 + 1, bbb>> >>

Gamma3(rdm) ==
    ConcatAll([i \in 1..rdm.nact |-> ConcatAll([j \in 1..rdm.nact |->
      ConcatAll([k \in 1..rdm.nact |-> ConcatAll([l \in 1..rdm.nact |->
        ConcatAll([m \in 1..rdm.nact |-> ConcatAll([n \in 1..rdm.nact |->
          Gamma3Block(rdm, i-1, j-1, k-1, l-1, m-1, n-1)])])])])])])

\* d[name] = value on a dict
SetKey(d, name, value) ==
    [x \in (DOMAIN d) \cup {name} |-> IF x = name THEN value ELSE d[x]]

EmptyDict == [x \in {} |-> 0]

\* the dict 'file' handed to json.dump
RdmRecord(sv, level) ==
    LET f1 == EnergyLoop(EmptyDict, state_energies_map(sv))
        f2 == SetKey(f1, "gamma1", Field(Gamma1(sv),
                "one-body density matrix as a list of tuples (i,j,<i^ j>)"))
        f3 == SetKey(f2, "gamma2", Field(Gamma2(sv),
                "two-body density matrix as a list of tuples (i,j,k,l,<i^ j^ l k>)"))
    IN  IF level = 3
        THEN SetKey(f3, "gamma3", Field(Gamma3(sv),
                "three-body density matrix as a list of tuples (i,j,k,l,m,n <i^ j^ k^ n m l>)"))
        ELSE f3

\* ------------------------------------------------------------------ state
VARIABLES
    pc,         \* position of the process: idle, inside a function, returned, raised
    fn,         \* the function called: none, write, ham, rdm
    as_ints,    \* the integral provider of the call
    state_map,  \* the state map of write_external_active_space_file
    pos,        \* index of the next item of state_map.items()
    file,       \* the local dict 'file'
    disk,       \* content of json_file on disk
    dumps,      \* number of json.dump calls made
    err,        \* the exception that left the call
    state,      \* the state handed to make_hamiltonian
    dets,       \* the list 'dets'
    H,          \* the matrix H
    calls,      \* the slater_rules calls made, as (I, J)
    evals,      \* evals as returned by np.linalg.eigh
    energy,     \* the printed FCI energy
    solver,     \* the active-space solver of write_external_rdm_file
    level,      \* max_rdm_level
    rdmdisk     \* content of rdms.json on disk

vars == <<pc, fn, as_ints, state_map, pos, file, disk, dumps, err, state, dets, H,
          calls, evals, energy, solver, level, rdmdisk>>

writeVars == <<state_map, pos, file, disk>>
hamVars == <<state, dets, H, calls, evals, energy>>
rdmVars == <<solver, level, rdmdisk>>

Init ==
    /\ pc = "idle"
    /\ fn = "none"
    /\ as_ints = None
    /\ state_map = <<>>
    /\ pos = 0
    /\ file = None
    /\ disk = StaleFile
    /\ dumps = 0
    /\ err = None
    /\ state = None
    /\ dets = None
    /\ H = None
    /\ calls = <<>>
    /\ evals = None
    /\ energy = None
    /\ solver = None
    /\ level = 0
    /\ rdmdisk = StaleFile

\* ---- write_external_active_space_file(as_ints, state_map)
CallWrite(as, sm) ==
    /\ pc = "idle"
    /\ pc' = "write"
    /\ fn' = "write"
    /\ as_ints' = as
    /\ state_map' = sm
    /\ pos' = 1
    /\ UNCHANGED <<file, disk, dumps, err>>
    /\ UNCHANGED hamVars
    /\ UNCHANGED rdmVars

\* one pass through the loop body: build 'file', then open(json_file, 'w+') and dump
WriteRecord ==
    /\ pc = "write"
    /\ pos <= Len(state_map)
    /\ file' = BuildFields(as_ints, state_map[pos].state, Len(FieldOrder))
    /\ disk' = file'
    /\ dumps' = dumps + 1
    /\ pos' = pos + 1
    /\ UNCHANGED <<pc, fn, as_ints, state_map, err>>
    /\ UNCHANGED hamVars
    /\ UNCHANGED rdmVars

\* RaiseInRecord for a writer that dumps each key as soon as it is assigned
RaiseInRecord_Incremental(acc) ==
    /\ pc = "write"
    /\ pos <= Len(state_map)
    /\ file' = BuildFields(as_ints, state_map[pos].state, acc[2])
    /\ disk' = file'
    /\ err' = acc[1]
    /\ pc' = "raised"
    /\ UNCHANGED <<fn, as_ints, state_map, pos, dumps>>
    /\ UNCHANGED hamVars
    /\ UNCHANGED rdmVars

\* an accessor raises during one pass: the exception leaves the function
RaiseInRecord(acc) ==
    /\ pc = "write"
    /\ pos <= Len(state_map)
    /\ file' = BuildFields(as_ints, state_map[pos].state, acc[2])
    /\ err' = acc[1]
    /\ pc' = "raised"
    /\ UNCHANGED <<fn, as_ints, state_map, pos, disk, dumps>>
    /\ UNCHANGED hamVars
    /\ UNCHANGED rdmVars

WriteReturn ==
    /\ pc = "write"
    /\ pos > Len(state_map)
    /\ pc' = "returned"
    /\ UNCHANGED <<fn, as_ints, err, dumps>>
    /\ UNCHANGED writeVars
    /\ UNCHANGED hamVars
    /\ UNCHANGED rdmVars

\* ---- make_hamiltonian(as_ints, state)
CallHam(as, st) ==
    /\ pc = "idle"
    /\ pc' = "ham"
    /\ fn' = "ham"
    /\ as_ints' = as
    /\ state' = st
    /\ UNCHANGED <<dets, H, calls, evals, energy, err, dumps>>
    /\ UNCHANGED writeVars
    /\ UNCHANGED rdmVars

\* lines 93-107: the determinant list
HamEnumerate ==
    /\ pc = "ham"
    /\ dets' = MakeDets(as_ints.nmo, state.na, state.nb)
    /\ pc' = "enumerated"
    /\ UNCHANGED <<fn, as_ints, state, H, calls, evals, energy, err, dumps>>
    /\ UNCHANGED writeVars
    /\ UNCHANGED rdmVars

\* lines 115-119: the dense matrix
HamAssemble ==
    /\ pc = "enumerated"
    /\ H' = MakeH(as_ints, dets)
    /\ calls' = SlaterCalls(dets)
    /\ pc' = "assembled"
    /\ UNCHANGED <<fn, as_ints, state, dets, evals, energy, err, dumps>>
    /\ UNCHANGED writeVars
    /\ UNCHANGED rdmVars

\* line 122 on a non-empty matrix
HamEigh ==
    /\ pc = "assembled"
    /\ Len(H) > 0
    /\ \E e \in LowestEvals(H) : evals' = <<e>>
    /\ pc' = "diagonalized"
    /\ UNCHANGED <<fn, as_ints, state, dets, H, calls, energy, err, dumps>>
    /\ UNCHANGED writeVars
    /\ UNCHANGED rdmVars

\* line 122 on a 0x0 matrix: numpy returns an empty evals
HamEighEmpty ==
    /\ pc = "assembled"
    /\ Len(H) = 0
    /\ evals' = <<>>
    /\ pc' = "diagonalized"
    /\ UNCHANGED <<fn, as_ints, state, dets, H, calls, energy, err, dumps>>
    /\ UNCHANGED writeVars
    /\ UNCHANGED rdmVars

\* line 122 on a 0x0 matrix: a numpy that rejects empty arrays raises
HamEighRaise ==
    /\ pc = "assembled"
    /\ Len(H) = 0
    /\ err' = "LinAlgError"
    /\ pc' = "raised"
    /\ UNCHANGED <<fn, as_ints, state, dets, H, calls, evals, energy, dumps>>
    /\ UNCHANGED writeVars
    /\ UNCHANGED rdmVars

\* line 125: the energy is printed
HamReport ==
    /\ pc = "diagonalized"
    /\ Len(evals) > 0
    /\ energy' = FciEnergy(as_ints, evals)
    /\ pc' = "returned"
    /\ UNCHANGED <<fn, as_ints, state, dets, H, calls, evals, err, dumps>>
    /\ UNCHANGED writeVars
    /\ UNCHANGED rdmVars

\* line 125: evals[0] of an empty evals
HamReportRaise ==
    /\ pc = "diagonalized"
    /\ Len(evals) = 0
    /\ err' = "IndexError"
    /\ pc' = "raised"
    /\ UNCHANGED <<fn, as_ints, state, dets, H, calls, evals, energy, dumps>>
    /\ UNCHANGED writeVars
    /\ UNCHANGED rdmVars

\* ---- write_external_rdm_file(active_space_solver, state_weights_map, max_rdm_level)
WriteExternalRdmFile(sv, lv) ==
    /\ pc = "idle"
    /\ fn' = "rdm"
    /\ solver' = sv
    /\ level' = lv
    /\ file' = RdmRecord(sv, lv)
    /\ rdmdisk' = file'
    /\ dumps' = dumps + 1
    /\ pc' = "returned"
    /\ UNCHANGED <<as_ints, state_map, pos, disk, err>>
    /\ UNCHANGED hamVars

Next ==
    \/ \E as \in Providers(MaxNmo), sm \in StateMaps : CallWrite(as, sm)
    \/ WriteRecord
    \/ \E acc \in Accessors : RaiseInRecord(acc)
    \/ WriteReturn
    \/ \E as \in Providers(MaxDetNmo), st \in HamStates : CallHam(as, st)
    \/ HamEnumerate
    \/ HamAssemble
    \/ HamEigh
    \/ HamEighEmpty
    \/ HamEighRaise
    \/ HamReport
    \/ HamReportRaise
    \/ \E sv \in Solvers, lv \in RdmLevels : WriteExternalRdmFile(sv, lv)

Spec == Init /\ [][Next]_vars

\* ------------------------------------------------------------------ claims
Alpha(p) == 2 * p
Beta(p) == 2 * p + 1
Orbs(n) == 0..(n - 1)
Entries(s) == {s[p] : p \in 1..Len(s)}
IsIntegralRecord(d) == "tei" \in DOMAIN d
IsRdmRecord(d) == "gamma2" \in DOMAIN d

\* the six rows of the two-electron table for one spatial quadruple
SixRows(i, j, k, l, aa, ab, bb) ==
    { <<Alpha(i), Alpha(j), Alpha(k), Alpha(l), aa>>,
      <<Alpha(i), Beta(j), Alpha(k), Beta(l), ab>>,
      <<Alpha(i), Beta(j), Beta(l), Alpha(k), 0 - ab>>,
      <<Beta(j), Alpha(i), Alpha(k), Beta(l), 0 - ab>>,
      <<Beta(j), Alpha(i), Beta(l), Alpha(k), ab>>,
      <<Beta(i), Beta(j), Beta(k), Beta(l), bb>> }

TeiTable(as, tei) ==
    /\ Len(tei) = 6 * as.nmo ^ 4
    /\ Entries(tei) = UNION {SixRows(i, j, k, l, tei_aa(as, i, j, k, l),
                                tei_ab(as, i, j, k, l), tei_bb(as, i, j, k, l)) :
                             <<i, j, k, l>> \in Orbs(as.nmo) \X Orbs(as.nmo)
                                                \X Orbs(as.nmo) \X Orbs(as.nmo)}
    /\ \A q \in 0..(as.nmo ^ 4 - 1) :
          \E i, j, k, l \in Orbs(as.nmo) :
             Entries(SubSeq(tei, 6 * q + 1, 6 * q + 6)) =
                SixRows(i, j, k, l, tei_aa(as, i, j, k, l),
                        tei_ab(as, i, j, k, l), tei_bb(as, i, j, k, l))

Gamma2Table(rdm, g2) ==
    /\ Len(g2) = 6 * rdm.nact ^ 4
    /\ Entries(g2) = UNION {SixRows(i, j, k, l, g2aa(rdm, i, j, k, l),
                                g2ab(rdm, i, j, k, l), g2bb(rdm, i, j, k, l)) :
                             <<i, j, k, l>> \in Orbs(rdm.nact) \X Orbs(rdm.nact)
                                                \X Orbs(rdm.nact) \X Orbs(rdm.nact)}
    /\ \A q \in 0..(rdm.nact ^ 4 - 1) :
          \E i, j, k, l \in Orbs(rdm.nact) :
             Entries(SubSeq(g2, 6 * q + 1, 6 * q + 6)) =
                SixRows(i, j, k, l, g2aa(rdm, i, j, k, l),
                        g2ab(rdm, i, j, k, l), g2bb(rdm, i, j, k, l))

\* C1: every persisted 'tei' list is the six-row table over all spatial
\* quadruples (six appended rows per quadruple, 6*nmo^4 rows, no others), and
\* every persisted 'gamma2' list is the same table over g2aa, g2ab, g2bb.
C1_SixRowTable ==
    /\ IsIntegralRecord(disk) => TeiTable(as_ints, disk.tei.data)
    /\ IsRdmRecord(rdmdisk) => Gamma2Table(solver, rdmdisk.gamma2.data)

C1_Witness ==
    /\ fn = "write" /\ pc = "returned"
    /\ IsIntegralRecord(disk)
    /\ as_ints.nmo = 2
    /\ Len(disk.tei.data) = 96
    /\ \E p \in 1..Len(disk.tei.data) : disk.tei.data[p][5] < 0

Spin(p) == p % 2
Indices4(e) == <<e[1], e[2], e[3], e[4]>>

\* C2: in every persisted 'tei' list no spin-orbital index 4-tuple occurs
\* twice, and every row (p,q,r,s,v) whose first pair has opposite spins has
\* the partners (q,p,r,s,-v) and (p,q,s,r,-v) in the list.
C2_UniqueAndAntisymmetric ==
    IsIntegralRecord(disk) =>
        LET tei == disk.tei.data
            rows == Entries(tei)
        IN  /\ Cardinality({Indices4(e) : e \in rows}) = Len(tei)
            /\ \A e \in rows :
                  Spin(e[1]) # Spin(e[2]) =>
                     /\ <<e[2], e[1], e[3], e[4], 0 - e[5]>> \in rows
                     /\ <<e[1], e[2], e[4], e[3], 0 - e[5]>> \in rows

C2_Witness ==
    /\ fn = "write" /\ pc = "returned"
    /\ IsIntegralRecord(disk)
    /\ as_ints.nmo = 2
    /\ \E e \in Entries(disk.tei.data) :
          /\ Spin(e[1]) = 0 /\ Spin(e[2]) = 1 /\ e[5] > 0
          /\ e[1] # e[2] - 1 /\ e[3] # e[4] - 1
          /\ <<e[2], e[1], e[3], e[4], 0 - e[5]>> \in Entries(disk.tei.data)

TwoRows(i, j, a, b) == { <<Alpha(i), Alpha(j), a>>, <<Beta(i), Beta(j), b>> }

OneBodyTable(n, rows, a(_, _), b(_, _)) ==
    /\ Len(rows) = 2 * n ^ 2
    /\ Entries(rows) = UNION {TwoRows(i, j, a(i, j), b(i, j)) :
                                <<i, j>> \in Orbs(n) \X Orbs(n)}
    /\ \A e \in Entries(rows) : Spin(e[1]) = Spin(e[2])

\* C3: every persisted 'oei' list holds, for each spatial pair (i,j), exactly
\* (2i,2j,oei_a(i,j)) and (2i+1,2j+1,oei_b(i,j)): 2*nmo^2 rows, none with
\* one even and one odd index; every persisted 'gamma1' list does so with g1a, g1b.
C3_OneBodyRows ==
    /\ IsIntegralRecord(disk) =>
          LET a(i, j) == oei_a(as_ints, i, j)
              b(i, j) == oei_b(as_ints, i, j)
          IN  OneBodyTable(as_ints.nmo, disk.oei.data, a, b)
    /\ IsRdmRecord(rdmdisk) =>
          LET a(i, j) == g1a(solver, i, j)
              b(i, j) == g1b(solver, i, j)
          IN  OneBodyTable(solver.nact, rdmdisk.gamma1.data, a, b)

C3_Witness ==
    /\ fn = "rdm" /\ pc = "returned"
    /\ IsRdmRecord(rdmdisk)
    /\ solver.nact = 2
    /\ Len(rdmdisk.gamma1.data) = 8
    /\ \E e \in Entries(rdmdisk.gamma1.data) : e[1] # e[2] /\ e[3] # 0

\* C4: after write_external_active_space_file has returned, every state of
\* the state map has its record (its state_symmetry, na and nb) on disk.
C4_OneRecordPerState ==
    (fn = "write" /\ pc = "returned") =>
        \A p \in 1..Len(state_map) :
            /\ IsIntegralRecord(disk)
            /\ disk.state_symmetry.data = state_map[p].state.irrep
            /\ disk.na.data = state_map[p].state.na
            /\ disk.nb.data = state_map[p].state.nb

\* C5: the energy make_hamiltonian reports is the lowest eigenvalue plus the
\* scalar offset the writer stores in 'scalar_energy' (frozen core + scalar +
\* nuclear repulsion).
C5_EnergyHasFullScalarOffset ==
    (fn = "ham" /\ pc = "returned") =>
        energy = evals[1] + FieldValue(as_ints, state, "scalar_energy").data

InvalidElectronCount ==
    fn = "ham" /\ (state.na > as_ints.nmo \/ state.nb > as_ints.nmo)

\* C6: a call of make_hamiltonian with na or nb above nmo fails with an
\* invalid-electron-count error at determinant enumeration; it never gets to
\* an (empty) determinant list, a matrix, the eigen-decomposition or an energy.
C6_InvalidElectronCountRejected ==
    InvalidElectronCount =>
        \/ pc = "ham"
        \/ pc = "raised" /\ err = "InvalidElectronCount"

RECURSIVE Binom(_, _)
Binom(n, k) == IF k = 0 THEN 1
               ELSE IF n = 0 THEN 0
               ELSE Binom(n - 1, k - 1) + Binom(n - 1, k)

RECURSIVE SortedSeq(_)
SortedSeq(S) == IF S = {} THEN <<>>
                ELSE LET lo == CHOOSE x \in S : \A y \in S : x <= y
                     IN  <<lo>> \o SortedSeq(S \ {lo})

\* s before t in lexicographic order (s and t of one length)
LexLess(s, t) ==
    \E p \in 1..Len(s) : s[p] < t[p] /\ \A q \in 1..(p - 1) : s[q] = t[q]

SubsetsOfSize(S, k) == {A \in SUBSET S : Cardinality(A) = k}

\* C7: for 0 <= na, nb <= nmo the determinant list has C(nmo,na)*C(nmo,nb)
\* elements, no duplicates, covers every (na-subset, nb-subset), carries
\* exactly the chosen bits, and is ordered alpha-major, beta-minor,
\* lexicographically; slater_rules is called once per ordered pair (I,J) and
\* H[I][J] is its value.
C7_DeterminantBasis ==
    (/\ fn = "ham"
     /\ pc \in {"enumerated", "assembled", "diagonalized", "returned"}
     /\ state.na <= as_ints.nmo /\ state.nb <= as_ints.nmo) =>
        LET nmo == as_ints.nmo
            nd == Len(dets)
        IN  /\ nd = Binom(nmo, state.na) * Binom(nmo, state.nb)
            /\ Cardinality(Entries(dets)) = nd
            /\ Entries(dets) = {[alfa |-> A, beta |-> B] :
                                 A \in SubsetsOfSize(Orbs(nmo), state.na),
                                 B \in SubsetsOfSize(Orbs(nmo), state.nb)}
            /\ \A p, q \in 1..nd :
                  p < q =>
                     \/ LexLess(SortedSeq(dets[p].alfa), SortedSeq(dets[q].alfa))
                     \/ /\ dets[p].alfa = dets[q].alfa
                        /\ LexLess(SortedSeq(dets[p].beta), SortedSeq(dets[q].beta))
            /\ pc # "enumerated" =>
                  /\ Len(calls) = nd * nd
                  /\ Entries(calls) = (1..nd) \X (1..nd)
                  /\ Len(H) = nd
                  /\ \A I, J \in 1..nd :
                        /\ Len(H[I]) = nd
                        /\ H[I][J] = slater_rules(as_ints, dets[I], dets[J])

C7_Witness ==
    /\ fn = "ham" /\ pc = "returned"
    /\ as_ints.nmo = 3 /\ state.na = 2 /\ state.nb = 1
    /\ Len(dets) = 9
    /\ dets[1] = [alfa |-> {0, 1}, beta |-> {0}]
    /\ dets[4] = [alfa |-> {0, 2}, beta |-> {0}]
    /\ Len(calls) = 81

\* the six loop variables of pass q (counted from 0) of the nested loops
LoopTuple(q, n) == [d \in 1..6 |-> (q \div (n ^ (6 - d))) % n]

Swap(s, p) == [x \in 1..Len(s) |-> IF x = p THEN s[p + 1]
                                  ELSE IF x = p + 1 THEN s[p] ELSE s[x]]

RECURSIVE MoveSlot(_, _, _)
\* the element in slot 'from' of s moved to slot 'to' by adjacent
\* transpositions, with the number of transpositions made
MoveSlot(s, from, to) ==
    IF from = to THEN [seq |-> s, swaps |-> 0]
    ELSE LET step == IF from < to THEN Swap(s, from) ELSE Swap(s, from - 1)
             next == IF from < to THEN from + 1 ELSE from - 1
             rest == MoveSlot(step, next, to)
         IN  [seq |-> rest.seq, swaps |-> rest.swaps + 1]

Parity(k) == IF k % 2 = 0 THEN 1 ELSE 0 - 1

\* the nine rows of a mixed sector: cre and ann are the canonical creation
\* and annihilation triples, slot the canonical slot of the odd-spin index
MixedRows(cre, ann, slot, v) ==
    {LET c == MoveSlot(cre, slot, cs)
         a == MoveSlot(ann, slot, as)
     IN  c.seq \o a.seq \o <<Parity(c.swaps + a.swaps) * v>> :
        cs \in 1..3, as \in 1..3}

Betas(e, from, to) == Cardinality({p \in from..to : Spin(e[p]) = 1})
\* rows of the block with nb beta creation and nb beta annihilation indices
Sector(block, nb) ==
    {p \in 1..Len(block) : Betas(block[p], 1, 3) = nb /\ Betas(block[p], 4, 6) = nb}
Indices6(e) == SubSeq(e, 1, 6)
OddSlots(e, spin) ==
    <<CHOOSE p \in 1..3 : Spin(e[p]) = spin, CHOOSE p \in 4..6 : Spin(e[p]) = spin>>

Gamma3BlockOK(rdm, block, t) ==
    LET i == t[1]  j == t[2]  k == t[3]  l == t[4]  m == t[5]  n == t[6]
        rows(S) == {block[p] : p \in S}
    IN  /\ Len(block) = 20
        /\ \A p \in 1..20 : Betas(block[p], 1, 3) = Betas(block[p], 4, 6)
        /\ Cardinality(Sector(block, 0)) = 1
        /\ rows(Sector(block, 0)) =
              {<<Alpha(i), Alpha(j), Alpha(k), Alpha(l), Alpha(m), Alpha(n),
                 g3aaa(rdm, i, j, k, l, m, n)>>}
        /\ Cardinality(Sector(block, 3)) = 1
        /\ rows(Sector(block, 3)) =
              {<<Beta(i), Beta(j), Beta(k), Beta(l), Beta(m), Beta(n),
                 g3bbb(rdm, i, j, k, l, m, n)>>}
        /\ Cardinality(Sector(block, 1)) = 9
        /\ Cardinality({Indices6(e) : e \in rows(Sector(block, 1))}) = 9
        /\ {OddSlots(e, 1) : e \in rows(Sector(block, 1))} = (1..3) \X (4..6)
        /\ rows(Sector(block, 1)) =
              MixedRows(<<Alpha(i), Alpha(j), Beta(k)>>, <<Alpha(l), Alpha(m), Beta(n)>>,
                        3, g3aab(rdm, i, j, k, l, m, n))
        /\ Cardinality(Sector(block, 2)) = 9
        /\ Cardinality({Indices6(e) : e \in rows(Sector(block, 2))}) = 9
        /\ {OddSlots(e, 0) : e \in rows(Sector(block, 2))} = (1..3) \X (4..6)
        /\ rows(Sector(block, 2)) =
              MixedRows(<<Alpha(i), Beta(j), Beta(k)>>, <<Alpha(l), Beta(m), Beta(n)>>,
                        1, g3abb(rdm, i, j, k, l, m, n))

\* C8: with max_rdm_level 3, each pass over a spatial 6-tuple appends to
\* 'gamma3' one aaa row, nine aab rows, nine abb rows and one bbb row; the
\* nine rows of a mixed sector put the odd-spin index in each creation slot
\* and each annihilation slot, have pairwise distinct index 6-tuples, and
\* carry the sector value with sign (-1)^(c+a), c and a the adjacent
\* transpositions that move the odd-spin index from its canonical slot.
C8_Gamma3Rows ==
    (IsRdmRecord(rdmdisk) /\ level = 3) =>
        /\ "gamma3" \in DOMAIN rdmdisk
        /\ LET g3 == rdmdisk.gamma3.data
               n == solver.nact
           IN  /\ Len(g3) = 20 * n ^ 6
               /\ \A q \in 0..(n ^ 6 - 1) :
                     Gamma3BlockOK(solver, SubSeq(g3, 20 * q + 1, 20 * q + 20),
                                   LoopTuple(q, n))

C8_Witness ==
    /\ fn = "rdm" /\ pc = "returned" /\ level = 3
    /\ solver.nact = 2
    /\ Len(rdmdisk.gamma3.data) = 1280
    /\ g3aab(solver, 0, 1, 0, 1, 1, 0) # 0
    /\ <<Alpha(0), Beta(0), Alpha(1), Beta(0), Alpha(1), Alpha(1),
         0 - g3aab(solver, 0, 1, 0, 1, 1, 0)>> \in Entries(rdmdisk.gamma3.data)

\* C9: the RDM record on disk after write_external_rdm_file has 'energy',
\* 'gamma1' and 'gamma2', has 'gamma3' exactly when max_rdm_level is 3, and
\* is the only record the call wrote.
C9_RdmRecordFields ==
    (fn = "rdm" /\ pc = "returned") =>
        /\ {"energy", "gamma1", "gamma2"} \subseteq DOMAIN rdmdisk
        /\ ("gamma3" \in DOMAIN rdmdisk) <=> (level = 3)
        /\ dumps = 1

\* C10: in write_external_active_space_file the file on disk only ever
\* changes to a record with all nine fields; a raising accessor ends the
\* call there (no later step, no retry) and leaves the file as it was when
\* the construction of that record began.
C10_NoPartialRecord ==
    [][fn' = "write" =>
         /\ pc # "raised"
         /\ (disk' # disk =>
                DOMAIN disk' = {FieldOrder[p] : p \in 1..Len(FieldOrder)})
         /\ (pc' = "raised" => disk' = disk /\ err' # None /\ dumps' = dumps)]_vars

C10_Witness ==
    /\ fn = "write" /\ pc = "raised" /\ err # None
    /\ pos = 2
    /\ IsIntegralRecord(disk)
    /\ disk.na.data = state_map[1].state.na
    /\ DOMAIN file = {FieldOrder[p] : p \in 1..8}
    /\ Len(file.oei.data) = 8

====
